---------------------------- MODULE Spec2Model ----------------------------
(***************************************************************************)
(* Model of the spaced-repetition core of Miaaula (srsService): the date   *)
(* helpers, the reference canonicalizer, calculateNewSrsState,             *)
(* calculateRetrievability / calculateCurrentDomain and                    *)
(* getLitRefSmartStatus, together with the caller that merges a patch back *)
(* into the stored item.                                                   *)
(*                                                                         *)
(* Numbers.  A JavaScript number is modelled as a fixed-point integer with *)
(* FP units per 1.0 (three decimals), or the value NaN.  Time stamps are   *)
(* whole minutes since an epoch that is a local midnight; a Date that does *)
(* not parse is INVALID and a missing field is ABSENT.                     *)
(***************************************************************************)
EXTENDS Integers, Sequences, FiniteSets, TLC

VARIABLES
    clock,       \* what new Date() returns at this moment (minutes)
    settings,    \* AppSettings: srsV2 and learning.srs.stabilityCapDays
    questions,   \* the question store: a sequence of items
    flashcards,  \* the flashcard store: a sequence of items
    call,        \* the last calculateNewSrsState call: arguments and outcome
    status,      \* the last getLitRefSmartStatus call: arguments and result
    gradings,    \* number of gradings done so far (bounds the exploration)
    session      \* StudySessionModal and its QuestionRunner: their React state

vars == <<clock, settings, questions, flashcards, call, status, gradings,
          session>>

-----------------------------------------------------------------------------
(* Bounds of the exploration *)

MaxGradings == 2
MaxTicks == 1
NQ == 2
NF == 1
MaxPad == 2
MaxHours == 13

-----------------------------------------------------------------------------
(* JavaScript numbers in fixed point *)

FP == 10 * 10 * 10

\* Number.NaN: the result of new Date(<unparseable>).getTime() and of every
\* arithmetic operation on it.  It lies outside every modelled magnitude.
NaN == -2000000000

\* Infinity, the start value of the minimum searches.
Infinity == 2000000000

\* A missing date field (undefined, null or '': all falsy) and an unparseable one.
ABSENT == -1
INVALID == -2

DAY_MIN == 1440

IsNaN(x) == x = NaN

Min2(a, b) == IF a <= b THEN a ELSE b
Max2(a, b) == IF a >= b THEN a ELSE b

\* Math.min / Math.max: NaN if either argument is NaN.
MathMin(a, b) == IF IsNaN(a) \/ IsNaN(b) THEN NaN ELSE Min2(a, b)
MathMax(a, b) == IF IsNaN(a) \/ IsNaN(b) THEN NaN ELSE Max2(a, b)

Abs(x) == IF x < 0 THEN -x ELSE x

\* The largest magnitude the model carries; a result beyond it is held at it
\* (a double would carry the larger value).
MaxMag == FP * FP * FP

\* a * b of two fixed-point numbers: |a*b|/FP with the larger factor split as
\* q*FP + r, so that no intermediate product leaves 32 bits.
MulRaw(a, b) ==
    LET big == Max2(Abs(a), Abs(b))
        m == Min2(Abs(a), Abs(b))
        q == big \div FP
        r == big % FP
        sgn == IF (a < 0) # (b < 0) THEN -1 ELSE 1
    IN IF m # 0 /\ q > MaxMag \div m THEN sgn * MaxMag
       ELSE sgn * Min2(MaxMag, q * m + (r * m) \div FP)

\* a / b of two fixed-point numbers, b # 0.
DivRaw(a, b) ==
    LET sgn == IF (a < 0) # (b < 0) THEN -1 ELSE 1
    IN IF Abs(a) > MaxMag \div FP THEN sgn * MaxMag
       ELSE sgn * ((Abs(a) * FP) \div Abs(b))

Mul(a, b) == IF IsNaN(a) \/ IsNaN(b) THEN NaN ELSE MulRaw(a, b)
Add(a, b) == IF IsNaN(a) \/ IsNaN(b) THEN NaN ELSE a + b
Sub(a, b) == IF IsNaN(a) \/ IsNaN(b) THEN NaN ELSE a - b
Div(a, b) == IF IsNaN(a) \/ IsNaN(b) THEN NaN ELSE DivRaw(a, b)

\* Comparisons with NaN are false.
Lt(a, b) == ~IsNaN(a) /\ ~IsNaN(b) /\ a < b
Le(a, b) == ~IsNaN(a) /\ ~IsNaN(b) /\ a <= b

\* e^(-r) for 0 <= r < 1, by its Taylor series, at ten times the resolution.
RECURSIVE ExpSeries(_, _, _, _)
ExpSeries(r, k, term, acc) ==
    IF k > 9 \/ term = 0 THEN acc
    ELSE LET t == (term * r) \div (k * 10 * FP)
         IN ExpSeries(r, k + 1, t,
                      IF k % 2 = 1 THEN acc - t ELSE acc + t)

ExpNegFrac(r) == ExpSeries(r * 10, 1, 10 * FP, 10 * FP)

\* e^(-n) for a natural n, at ten times the resolution (1/e = 0.36788).
RECURSIVE ExpNegInt(_)
ExpNegInt(n) ==
    IF n = 0 THEN 10 * FP
    ELSE IF n > 12 THEN 0
    ELSE (ExpNegInt(n - 1) * 3679) \div (10 * FP)

\* e^n for a natural n (e = 2.71828), saturating below Infinity.
RECURSIVE ExpPosInt(_)
ExpPosInt(n) ==
    IF n = 0 THEN FP
    ELSE IF n > 12 THEN 200000 * FP
    ELSE Min2(200000 * FP, MulRaw(ExpPosInt(n - 1), 2718))

\* Math.exp(x): for x <= 0, e^(-n) * e^(-r) with -x = n + r; for x > 0,
\* e^(n+1) * e^(-(1-r)) with x = n + r.
MathExp(x) ==
    IF IsNaN(x) THEN NaN
    ELSE IF x <= 0
         THEN LET n == (-x) \div FP
                  r == (-x) % FP
              IN (ExpNegInt(n) * ExpNegFrac(r)) \div (100 * FP)
         ELSE LET n == x \div FP
                  r == x % FP
              IN IF r = 0 THEN ExpPosInt(n)
                 ELSE MulRaw(ExpPosInt(n + 1), ExpNegFrac(FP - r) \div 10)

\* ln(m) for 1 <= m < 2 as 2*atanh((m-1)/(m+1)), at ten times the resolution.
LnMantissa(m) ==
    LET S == 10 * FP
        y == ((m - FP) * S) \div (m + FP)
        y2 == (y * y) \div S
        y3 == (y * y2) \div S
        y5 == (y3 * y2) \div S
        y7 == (y5 * y2) \div S
    IN 2 * (y + y3 \div 3 + y5 \div 5 + y7 \div 7)

\* Math.log(x) for x >= 1: halve x down to [1, 2) and add ln 2 = 0.69315 each time.
RECURSIVE LnScaled(_)
LnScaled(x) ==
    IF x >= 2 * FP THEN 6931 + LnScaled(x \div 2) ELSE LnMantissa(x)

MathLog(x) == IF IsNaN(x) THEN NaN ELSE LnScaled(x) \div 10

-----------------------------------------------------------------------------
(* Date helpers *)

\* new Date(str).getTime(): NaN for a string that does not parse.  A stored ISO
\* string is held as its time stamp, so parsing a valid one gives it back.
GetTime(d) == IF d = INVALID \/ d = ABSENT THEN NaN ELSE d

\* days * 24 * 60 * 60 * 1000 as an offset in time units, fraction included
\* (the Date constructor drops what is below its resolution).
DaysToOffset(days) == MulRaw(days, DAY_MIN)

\* r.setDate(r.getDate() + days): the day of the month is converted with
\* ToIntegerOrInfinity, so only the whole days of `days` move the date; the
\* local time of day is kept.  A NaN day makes the Date invalid.
SetDatePlus(date, days) ==
    IF IsNaN(days) THEN INVALID ELSE date + (days \div FP) * DAY_MIN

\* addDaysToDate(date, days); `fresh` is what new Date() returns inside it.
addDaysToDate(date, days, fresh) ==
    IF date = INVALID THEN fresh
    ELSE IF Lt(days, 50) THEN date + DaysToOffset(days)
    ELSE SetDatePlus(date, days)

-----------------------------------------------------------------------------
(* Memory model *)

\* item.stability || dflt, item.difficulty || dflt, ...: 0 and a missing field
\* are both falsy, so a missing numeric field is held as 0.
OrElse(v, dflt) == IF v = 0 \/ IsNaN(v) THEN dflt ELSE v

\* Whether calculateRetrievability(item) reads the clock: it returns before it
\* does for an item without lastReviewedAt.
SamplesClock(item) == item.lastReviewedAt # ABSENT

\* calculateRetrievability with the sign of the exponent dropped.
calculateRetrievability_Grows(item, now) ==
    IF item.lastReviewedAt = ABSENT THEN 0
    ELSE LET last == GetTime(item.lastReviewedAt)
             daysElapsed == IF IsNaN(last) THEN NaN
                            ELSE ((now - last) * FP) \div DAY_MIN
             S == OrElse(item.stability, FP)
         IN MathExp(Div(daysElapsed, S))

\* calculateRetrievability(item); `now` is its own new Date().getTime().
calculateRetrievability(item, now) ==
    IF item.lastReviewedAt = ABSENT THEN 0
    ELSE LET last == GetTime(item.lastReviewedAt)
             daysElapsed == IF IsNaN(last) THEN NaN
                            ELSE ((now - last) * FP) \div DAY_MIN
             S == OrElse(item.stability, FP)
         IN MathExp(Div(Sub(0, daysElapsed), S))

\* calculateCurrentDomain without its early return for a never-attempted item.
calculateCurrentDomain_NoGuard(item, now) ==
    Mul(OrElse(item.masteryScore, 0), calculateRetrievability(item, now))

\* calculateCurrentDomain(item, settings)
calculateCurrentDomain(item, now) ==
    IF item.totalAttempts = 0 THEN 0
    ELSE Mul(OrElse(item.masteryScore, 0), calculateRetrievability(item, now))

GradeLabels == <<"again", "hard", "good", "easy">>

\* NewDifficulty without the cap and the floor.
NewDifficulty_Unclamped(currentD, wasCorrect, rating) ==
    IF ~wasCorrect THEN currentD + 200
    ELSE IF rating = 3 THEN currentD - 150
    ELSE IF rating = 1 THEN currentD + 100
    ELSE currentD

\* NewDifficulty with the hard and the easy adjustment exchanged.
NewDifficulty_Exchanged(currentD, wasCorrect, rating) ==
    IF ~wasCorrect THEN Min2(FP, currentD + 200)
    ELSE IF rating = 1 THEN Max2(100, currentD - 150)
    ELSE IF rating = 3 THEN Min2(FP, currentD + 100)
    ELSE currentD

\* The difficulty after a grading.
NewDifficulty(currentD, wasCorrect, rating) ==
    IF ~wasCorrect THEN Min2(FP, currentD + 200)
    ELSE IF rating = 3 THEN Max2(100, currentD - 150)
    ELSE IF rating = 1 THEN Min2(FP, currentD + 100)
    ELSE currentD

\* FailStability growing the stability by gamma_fail instead of cutting it.
FailStability_Grows(currentS, s) == Max2(500, Mul(currentS, FP + s.gamma_fail))

\* The stability after an incorrect answer.
FailStability(currentS, s) == Max2(500, Mul(currentS, s.gamma_fail))

\* GrowStability with the gain taken off the stability instead of added to it.
GrowStability_Shrinks(currentS, currentD, currentR, rating, timeTaken, s) ==
    LET alpha == IF rating = 1 THEN s.alpha_hard
                 ELSE IF rating = 3 THEN s.alpha_easy
                 ELSE s.alpha_good
        gain == Mul(Mul(alpha, Add(FP, Mul(Sub(FP, currentR), 2 * FP))),
                    FP + (FP - currentD))
    IN Mul(currentS, Sub(FP, Mul(gain, 100)))

\* The stability after a correct answer.
GrowStability(currentS, currentD, currentR, rating, timeTaken, s) ==
    LET alpha == IF rating = 1 THEN s.alpha_hard
                 ELSE IF rating = 3 THEN s.alpha_easy
                 ELSE s.alpha_good
        gain == Mul(Mul(alpha, Add(FP, Mul(Sub(FP, currentR), 2 * FP))),
                    FP + (FP - currentD))
        expectedTime == 20
        timeBonus == IF 2 * timeTaken < expectedTime THEN FP + s.k_rt_bonus ELSE FP
    IN Mul(currentS, Add(FP, Mul(gain, timeBonus)))

\* settings.learning.srs.stabilityCapDays || 365
StabilityCap(s) == OrElse(s.stabilityCapDays, 365 * FP)

\* The mastery score of a new stability and difficulty.
MasteryOf(newS, newD, wasCorrect) ==
    LET base == IF Le(newS, FP)
                THEN (IF wasCorrect THEN 15 * FP ELSE 0)
                ELSE LET raw == MathMin(100 * FP,
                                   Mul(Div(MathLog(newS), MathLog(365 * FP)), 100 * FP))
                     IN IF Lt(raw, 20 * FP) /\ wasCorrect THEN 20 * FP ELSE raw
        scaled == Mul(base, FP - Mul(newD, 200))
    IN MathMax(0, MathMin(100 * FP, scaled))

TimingClass(timeTaken) ==
    IF timeTaken < 5 THEN "RUSH" ELSE IF timeTaken > 60 THEN "SLOW" ELSE "OK"

\* calculateNewSrsState(item, wasCorrect, rating, timeTaken, settings).
\* `now` is its new Date(); `nowR` is the new Date() that calculateRetrievability
\* takes for itself.  threw: nextDate.toISOString() raises RangeError on an
\* invalid Date, and then no patch is returned.
calculateNewSrsState(item, wasCorrect, rating, timeTaken, s, now, nowR) ==
    LET currentS == OrElse(item.stability, s.S_default_days)
        currentD == OrElse(item.difficulty, 500)
        currentR == calculateRetrievability(item, nowR)
        newD == NewDifficulty(currentD, wasCorrect, rating)
        grown == IF wasCorrect
                 THEN GrowStability(currentS, currentD, currentR, rating, timeTaken, s)
                 ELSE FailStability(currentS, s)
        newS == MathMin(grown, StabilityCap(s))
        masteryScore == MasteryOf(newS, newD, wasCorrect)
        nextDate == addDaysToDate(now, newS, now)
    IN [threw |-> nextDate = INVALID,
        stability |-> newS,
        difficulty |-> newD,
        masteryScore |-> masteryScore,
        nextReviewDate |-> nextDate,
        lastReviewedAt |-> now,
        timingClass |-> TimingClass(timeTaken),
        grade |-> GradeLabels[rating + 1],
        lastWasCorrect |-> wasCorrect]

\* The caller's merge of a patch into the item it graded:
\* {...item, ...patch, totalAttempts: (item.totalAttempts || 0) + 1}.
MergePatch(item, p) ==
    [item EXCEPT !.stability = p.stability,
                 !.difficulty = p.difficulty,
                 !.masteryScore = p.masteryScore,
                 !.nextReviewDate = p.nextReviewDate,
                 !.lastReviewedAt = p.lastReviewedAt,
                 !.lastWasCorrect = p.lastWasCorrect,
                 !.totalAttempts = item.totalAttempts + 1]

-----------------------------------------------------------------------------
(* Strings and the reference canonicalizer *)

\* A string is the sequence of its UTF-16 units; '' (like a missing field,
\* also falsy) is the empty sequence.  Units beyond ASCII that the canonicalizer
\* treats specially are named: ZWSP (U+200B), BOM (U+FEFF), NBSP (U+00A0) and
\* FW_A (U+FF21, fullwidth A).
LowerLetters == <<"a", "b", "c", "d", "e", "f", "g", "h", "i", "j", "k", "l", "m",
                  "n", "o", "p", "q", "r", "s", "t", "u", "v", "w", "x", "y", "z">>
UpperLetters == <<"A", "B", "C", "D", "E", "F", "G", "H", "I", "J", "K", "L", "M",
                  "N", "O", "P", "Q", "R", "S", "T", "U", "V", "W", "X", "Y", "Z">>

LetterIndex(letters, c) ==
    IF \E i \in DOMAIN letters : letters[i] = c
    THEN CHOOSE i \in DOMAIN letters : letters[i] = c
    ELSE 0

\* String.prototype.toLowerCase / toUpperCase, unit by unit.
LowerChar(c) ==
    IF c = "FW_A" THEN "FW_a"
    ELSE IF LetterIndex(UpperLetters, c) > 0
         THEN LowerLetters[LetterIndex(UpperLetters, c)] ELSE c
UpperChar(c) ==
    IF c = "FW_a" THEN "FW_A"
    ELSE IF LetterIndex(LowerLetters, c) > 0
         THEN UpperLetters[LetterIndex(LowerLetters, c)] ELSE c
ToLowerCase(str) == [i \in DOMAIN str |-> LowerChar(str[i])]
ToUpperCase(str) == [i \in DOMAIN str |-> UpperChar(str[i])]

\* String.prototype.trim: white space (which includes NBSP and BOM, but not ZWSP)
\* is dropped at both ends.
IsWhiteSpace(c) == c \in {" ", "NBSP", "BOM"}
RECURSIVE TrimStart(_)
TrimStart(str) ==
    IF str # <<>> /\ IsWhiteSpace(Head(str)) THEN TrimStart(Tail(str)) ELSE str
RECURSIVE TrimEnd(_)
TrimEnd(str) ==
    IF str # <<>> /\ IsWhiteSpace(str[Len(str)])
    THEN TrimEnd(SubSeq(str, 1, Len(str) - 1)) ELSE str
Trim(str) == TrimEnd(TrimStart(str))

\* normalize("NFKC"): compatibility units become their plain counterparts.
NfkcChar(c) ==
    IF c = "FW_A" THEN "A" ELSE IF c = "FW_a" THEN "a"
    ELSE IF c = "NBSP" THEN " " ELSE c
NormalizeNFKC(str) == [i \in DOMAIN str |-> NfkcChar(str[i])]

\* replace(/[\u200B-\u200D\uFEFF]/g, "")
StripZeroWidth(str) == SelectSeq(str, LAMBDA c : c \notin {"ZWSP", "BOM"})

StartsWith(str, prefix) ==
    Len(str) >= Len(prefix) /\ SubSeq(str, 1, Len(prefix)) = prefix

TRILHA == <<"T", "R", "I", "L", "H", "A", "_">>

\* canonicalizeLitRef trimming before it strips the zero-width units.
canonicalizeLitRef_TrimFirst(v) ==
    IF v = <<>> THEN <<>>
    ELSE IF StartsWith(ToUpperCase(Trim(v)), TRILHA) THEN Trim(v)
    ELSE ToLowerCase(StripZeroWidth(Trim(NormalizeNFKC(v))))

\* canonicalizeLitRef(v)
canonicalizeLitRef(v) ==
    IF v = <<>> THEN <<>>
    ELSE IF StartsWith(ToUpperCase(Trim(v)), TRILHA) THEN Trim(v)
    ELSE ToLowerCase(Trim(StripZeroWidth(NormalizeNFKC(v))))

PAIR_MATCH == <<"p", "a", "i", "r", "-", "m", "a", "t", "c", "h">>
LITERALNESS == <<"l", "i", "t", "e", "r", "a", "l", "n", "e", "s", "s">>
FLASHCARD == <<"f", "l", "a", "s", "h", "c", "a", "r", "d">>

\* Array.prototype.includes
Includes(seq, x) == \E i \in DOMAIN seq : seq[i] = x

\* A tag that resolveLitRef accepts as a reference: not a reserved marker, and
\* longer than two units.
IsValidTag(t) ==
    LET u == canonicalizeLitRef(t)
    IN u # PAIR_MATCH /\ u # LITERALNESS /\ u # FLASHCARD /\ Len(t) > 2

\* obj.tags.find(IsValidTag): the first such tag, or '' for undefined.
RECURSIVE FindValidTag(_)
FindValidTag(tags) ==
    IF tags = <<>> THEN <<>>
    ELSE IF IsValidTag(Head(tags)) THEN Head(tags)
    ELSE FindValidTag(Tail(tags))

\* resolveLitRef(obj)
resolveLitRef(obj) ==
    LET validTag == FindValidTag(obj.tags)
        generated == StartsWith(obj.id, <<"q", "_">>)
                     \/ StartsWith(obj.id, <<"f", "c", "_">>)
                     \/ StartsWith(obj.id, <<"t", "e", "m", "p", "_">>)
    IN IF obj.litRef # <<>> /\ Trim(obj.litRef) # <<>> THEN canonicalizeLitRef(obj.litRef)
       ELSE IF obj.lawRef # <<>> /\ Trim(obj.lawRef) # <<>>
            THEN canonicalizeLitRef(obj.lawRef)
       ELSE IF obj.LIT_REF # <<>> THEN canonicalizeLitRef(obj.LIT_REF)
       ELSE IF validTag # <<>> THEN canonicalizeLitRef(validTag)
       ELSE IF obj.id # <<>> /\ ~generated THEN canonicalizeLitRef(obj.id)
       ELSE <<>>

\* isLinked(item, targetIdCanonical)
isLinked(item, targetIdCanonical) ==
    IF targetIdCanonical = <<>> THEN FALSE
    ELSE LET itemRef == resolveLitRef(item)
         IN \/ itemRef # <<>> /\ itemRef = targetIdCanonical
            \/ \E i \in DOMAIN item.tags :
                  canonicalizeLitRef(item.tags[i]) = targetIdCanonical
            \/ item.lawRef # <<>> /\ canonicalizeLitRef(item.lawRef) = targetIdCanonical
            \/ item.litRef # <<>> /\ canonicalizeLitRef(item.litRef) = targetIdCanonical

-----------------------------------------------------------------------------
(* Aggregation by reference *)

\* The local calendar: the epoch is 1 January, 00:00, of a year of 365 days.
MonthLengths == <<31, 28, 31, 30, 31, 30, 31, 31, 30, 31, 30, 31>>

RECURSIVE MonthAndDay(_, _)
MonthAndDay(month, dayOfYear) ==
    IF dayOfYear < MonthLengths[month] THEN <<month, dayOfYear + 1>>
    ELSE MonthAndDay(month + 1, dayOfYear - MonthLengths[month])

\* getDate(), getMonth() + 1, getHours(), getMinutes() of new Date(ts).
DateFields(ts) ==
    LET md == MonthAndDay(1, (ts \div DAY_MIN) % 365)
    IN [dd |-> md[2], mm |-> md[1],
        hh |-> (ts % DAY_MIN) \div 60, mi |-> ts % 60]

\* SameLocalDay taking any two moments at most a day apart for the same day.
SameLocalDay_WithinADay(a, b) == Abs(a - b) <= DAY_MIN

\* a.toDateString() === b.toDateString()
SameLocalDay(a, b) == a \div DAY_MIN = b \div DAY_MIN

\* A review label: its fixed text and the date fields printed in it, each
\* padded to two digits ("ATRASADA (dd/mm hh:mm)", "Hoje as hh:mm",
\* "dd/mm as hh:mm"); a label without date fields has them 0.
PlainLabel(text) == [text |-> text, dd |-> 0, mm |-> 0, hh |-> 0, mi |-> 0]
OverdueLabel(ts) ==
    LET f == DateFields(ts)
    IN [text |-> "ATRASADA", dd |-> f.dd, mm |-> f.mm, hh |-> f.hh, mi |-> f.mi]
TodayLabel(ts) ==
    LET f == DateFields(ts)
    IN [text |-> "Hoje", dd |-> 0, mm |-> 0, hh |-> f.hh, mi |-> f.mi]
DateLabel(ts) ==
    LET f == DateFields(ts)
    IN [text |-> "dd/mm", dd |-> f.dd, mm |-> f.mm, hh |-> f.hh, mi |-> f.mi]

SubKinds == {"questions", "gaps", "flashcards", "pairs"}
ZeroCounts == [k \in SubKinds |-> 0]

\* EmptyStatus carrying the label of a group without items.
EmptyStatus_Novo ==
    [domain |-> 0, mastery |-> 0, nextReviewDate |-> ABSENT,
     nextReviewLabel |-> PlainLabel("Novo"),
     totalItems |-> 0, reviewedItems |-> 0, overdueItems |-> 0,
     counts |-> [total |-> ZeroCounts, pending |-> ZeroCounts,
                 notStarted |-> ZeroCounts],
     lists |-> [k \in SubKinds |-> <<>>],
     nextDueAtFuture |-> ABSENT]

\* The result object as getLitRefSmartStatus creates it.
EmptyStatus ==
    [domain |-> 0, mastery |-> 0, nextReviewDate |-> ABSENT,
     nextReviewLabel |-> PlainLabel("-"),
     totalItems |-> 0, reviewedItems |-> 0, overdueItems |-> 0,
     counts |-> [total |-> ZeroCounts, pending |-> ZeroCounts,
                 notStarted |-> ZeroCounts],
     lists |-> [k \in SubKinds |-> <<>>],
     nextDueAtFuture |-> ABSENT]

\* The test that gathers a question: canonicalizeLitRef(q.lawRef || q.litRef).
QuestionMatches(q, targetCanon) ==
    canonicalizeLitRef(IF q.lawRef # <<>> THEN q.lawRef ELSE q.litRef) = targetCanon

\* The test that gathers a flashcard: its litRef, or else a tag, gives the target.
FlashcardMatches(fc, targetCanon) ==
    LET own == canonicalizeLitRef(fc.litRef)
        byTag == \E i \in DOMAIN fc.tags :
                    canonicalizeLitRef(fc.tags[i]) = targetCanon /\ fc.tags[i] # <<>>
        ref == IF own # <<>> THEN own ELSE IF byTag THEN targetCanon ELSE <<>>
    IN ref = targetCanon

\* The sub-kind a gathered item is counted under in counts.total.
TotalKindOfQuestion(q) == IF q.isGapType THEN "gaps" ELSE "questions"
TotalKindOfFlashcard(fc) ==
    IF Includes(fc.tags, PAIR_MATCH) THEN "pairs" ELSE "flashcards"

\* The sub-kind an item is bucketed under in the status pass, by the fields
\* it has.
BucketOf(item) ==
    IF item.isGapType THEN "gaps"
    ELSE IF item.hasQuestionText THEN "questions"
    ELSE IF Includes(item.tags, PAIR_MATCH) THEN "pairs"
    ELSE "flashcards"

\* item.nextReviewDate ? new Date(item.nextReviewDate).getTime() : NaN
NextTime(item) ==
    IF item.nextReviewDate = ABSENT THEN NaN ELSE GetTime(item.nextReviewDate)

\* StatusClass without the test for a never-attempted item.
StatusClass_IgnoresAttempts(item, nowTs) ==
    IF IsNaN(NextTime(item)) THEN "none"
    ELSE IF NextTime(item) <= nowTs THEN "pending"
    ELSE "future"

\* The class the status pass puts an item in.
StatusClass(item, nowTs) ==
    IF item.totalAttempts = 0 THEN "notStarted"
    ELSE IF IsNaN(NextTime(item)) THEN "none"
    ELSE IF NextTime(item) <= nowTs THEN "pending"
    ELSE "future"

\* sumDomain += calculateCurrentDomain(item, settings), over attempted items.
RECURSIVE SumDomain(_, _, _)
SumDomain(seq, nowR, acc) ==
    IF seq = <<>> THEN acc
    ELSE SumDomain(Tail(seq), nowR,
                   Add(acc, calculateCurrentDomain(Head(seq), nowR)))

\* SumMastery assigning where it should add: the last item's mastery is kept.
SumMastery_Last(seq, acc) ==
    IF seq = <<>> THEN acc ELSE OrElse(seq[Len(seq)].masteryScore, 0)

\* sumMastery += (item.masteryScore || 0), over attempted items.
RECURSIVE SumMastery(_, _)
SumMastery(seq, acc) ==
    IF seq = <<>> THEN acc
    ELSE SumMastery(Tail(seq), Add(acc, OrElse(Head(seq).masteryScore, 0)))

\* The scan "if (nextTime < minFutureDate) minFutureDate = nextTime".
RECURSIVE MinFutureDate(_, _)
MinFutureDate(seq, best) ==
    IF seq = <<>> THEN best
    ELSE MinFutureDate(Tail(seq),
                       IF Lt(NextTime(Head(seq)), best)
                       THEN NextTime(Head(seq)) ELSE best)

\* The scan "if (t <= nowTs && t < oldest) oldest = t", t being
\* new Date(i.nextReviewDate).getTime().
RECURSIVE OldestScan(_, _, _)
OldestScan(seq, nowTs, oldest) ==
    IF seq = <<>> THEN oldest
    ELSE LET t == GetTime(Head(seq).nextReviewDate)
         IN OldestScan(Tail(seq), nowTs,
                       IF Le(t, nowTs) /\ Lt(t, oldest) THEN t ELSE oldest)

\* InsertByDate with the comparison turned round: latest first.
RECURSIVE InsertByDate_Descending(_, _)
InsertByDate_Descending(sorted, item) ==
    IF sorted = <<>> THEN <<item>>
    ELSE IF GetTime(item.nextReviewDate) > GetTime(Head(sorted).nextReviewDate)
         THEN <<item>> \o sorted
         ELSE <<Head(sorted)>> \o InsertByDate_Descending(Tail(sorted), item)

\* Array.prototype.sort(sortByDate): a stable sort, ascending by due date.
RECURSIVE InsertByDate(_, _)
InsertByDate(sorted, item) ==
    IF sorted = <<>> THEN <<item>>
    ELSE IF GetTime(item.nextReviewDate) < GetTime(Head(sorted).nextReviewDate)
         THEN <<item>> \o sorted
         ELSE <<Head(sorted)>> \o InsertByDate(Tail(sorted), item)

RECURSIVE SortByDate(_, _)
SortByDate(seq, sorted) ==
    IF seq = <<>> THEN sorted
    ELSE SortByDate(Tail(seq), InsertByDate(sorted, Head(seq)))

\* The label and next review date when no overdue item decides them.
FutureOrIdle(res, minFutureDate, nowTs) ==
    IF minFutureDate # Infinity
    THEN IF minFutureDate > nowTs
         THEN [res EXCEPT !.nextDueAtFuture = minFutureDate,
                          !.nextReviewDate = minFutureDate,
                          !.nextReviewLabel =
                              IF SameLocalDay(minFutureDate, nowTs)
                              THEN TodayLabel(minFutureDate)
                              ELSE DateLabel(minFutureDate)]
         ELSE [res EXCEPT !.nextDueAtFuture = minFutureDate]
    ELSE [res EXCEPT !.nextReviewLabel =
              IF res.overdueItems > 0 THEN PlainLabel("AGORA")
              ELSE IF res.reviewedItems > 0 THEN PlainLabel("Concluido")
              ELSE PlainLabel("Iniciar")]

\* The second pass: the oldest due date not after now, over every gathered item.
OldestDue(items, nowTs) == OldestScan(items, nowTs, Infinity)

\* The label and next review date once overdue items are looked at.
WithOverdue(res, items, nowTs) ==
    IF res.overdueItems > 0 /\ OldestDue(items, nowTs) # Infinity
    THEN [res EXCEPT !.nextReviewDate = OldestDue(items, nowTs),
                     !.nextReviewLabel = OverdueLabel(OldestDue(items, nowTs))]
    ELSE res

\* The items getLitRefSmartStatus gathers: the matching questions, then the
\* matching flashcards, in store order; none for an empty canonical target.
GatheredQuestions(targetCanon, allQuestions) ==
    IF targetCanon = <<>> THEN <<>>
    ELSE SelectSeq(allQuestions, LAMBDA q : QuestionMatches(q, targetCanon))
GatheredFlashcards(targetCanon, allFlashcards) ==
    IF targetCanon = <<>> THEN <<>>
    ELSE SelectSeq(allFlashcards, LAMBDA fc : FlashcardMatches(fc, targetCanon))
Gathered(litRef, allQuestions, allFlashcards) ==
    GatheredQuestions(canonicalizeLitRef(litRef), allQuestions)
    \o GatheredFlashcards(canonicalizeLitRef(litRef), allFlashcards)

\* getLitRefSmartStatus(litRef, allQuestions, allFlashcards, settings).
\* nowTs is its new Date(); nowR is the new Date() that calculateRetrievability
\* takes for itself under calculateCurrentDomain.
getLitRefSmartStatus(litRef, allQuestions, allFlashcards, nowTs, nowR) ==
    LET targetCanon == canonicalizeLitRef(litRef)
        qs == GatheredQuestions(targetCanon, allQuestions)
        fs == GatheredFlashcards(targetCanon, allFlashcards)
        items == qs \o fs
        total == [k \in SubKinds |->
                    Len(SelectSeq(qs, LAMBDA q : TotalKindOfQuestion(q) = k))
                    + Len(SelectSeq(fs, LAMBDA fc : TotalKindOfFlashcard(fc) = k))]
        inClass(c, k) ==
            SelectSeq(items, LAMBDA i : StatusClass(i, nowTs) = c /\ BucketOf(i) = k)
        attempted == SelectSeq(items, LAMBDA i : i.totalAttempts > 0)
        sumDomain == SumDomain(attempted, nowR, 0)
        sumMastery == SumMastery(attempted, 0)
        minFutureDate ==
            MinFutureDate(SelectSeq(items, LAMBDA i : StatusClass(i, nowTs) = "future"),
                          Infinity)
        tallied ==
            [EmptyStatus EXCEPT
                !.totalItems = Len(items),
                !.reviewedItems = Len(attempted),
                !.overdueItems =
                    Len(SelectSeq(items, LAMBDA i : StatusClass(i, nowTs) = "pending")),
                !.counts = [total |-> total,
                            pending |-> [k \in SubKinds |-> Len(inClass("pending", k))],
                            notStarted |->
                                [k \in SubKinds |-> Len(inClass("notStarted", k))]],
                !.lists = [k \in SubKinds |-> SortByDate(inClass("pending", k), <<>>)],
                !.domain = Div(sumDomain, Len(items) * FP),
                !.mastery = Div(sumMastery, Len(items) * FP)]
    IN IF targetCanon = <<>> THEN EmptyStatus
       ELSE IF Len(items) = 0
            THEN [EmptyStatus EXCEPT !.counts.total = total,
                                     !.nextReviewLabel = PlainLabel("Novo")]
            ELSE WithOverdue(FutureOrIdle(tallied, minFutureDate, nowTs), items, nowTs)

-----------------------------------------------------------------------------
(* Date utilities *)

\* A date string or Date object is ABSENT, INVALID or its time in minutes; `now`
\* is the utility's own new Date().  A result that is a date is such a value too.

\* Date.prototype.toLocaleDateString('pt-BR'): "dd/mm/yyyy".
LocaleDate(ts) ==
    [text |-> "dd/mm/yyyy", dd |-> DateFields(ts).dd, mm |-> DateFields(ts).mm,
     hh |-> 0, mi |-> 0]

\* The date part of toISOString(): the day the moment falls on.
IsoDay(ts) == ts \div DAY_MIN

\* toISODate without its test for an invalid Date: toISOString() raises.
toISODate_NoGuard(date, now) ==
    IF IsNaN(GetTime(date)) THEN [threw |-> TRUE, value |-> ABSENT]
    ELSE [threw |-> FALSE, value |-> IsoDay(date)]

\* toISODate(date)
toISODate(date, now) ==
    IF IsNaN(GetTime(date)) THEN [threw |-> FALSE, value |-> IsoDay(now)]
    ELSE [threw |-> FALSE, value |-> IsoDay(date)]

\* addDaysISO(dateStr, days)
addDaysISO(dateStr, days, now) ==
    LET d == IF dateStr = ABSENT THEN INVALID ELSE dateStr
        res == addDaysToDate(d, days, now)
    IN IF IsNaN(GetTime(d)) THEN [threw |-> FALSE, value |-> now]
       ELSE IF IsNaN(GetTime(res)) THEN [threw |-> FALSE, value |-> now]
       ELSE [threw |-> FALSE, value |-> res]

\* formatISOToBr(isoDate)
formatISOToBr(isoDate) ==
    IF isoDate = ABSENT THEN PlainLabel("-")
    ELSE IF IsNaN(GetTime(isoDate)) THEN PlainLabel("-")
    ELSE LocaleDate(isoDate)

\* isReviewFuture(dateStr)
isReviewFuture(dateStr, now) ==
    LET d == IF dateStr = ABSENT THEN INVALID ELSE dateStr
    IN IF IsNaN(GetTime(d)) THEN FALSE ELSE d > now

\* 12 * 60 * 60 * 1000 ms
WINDOW_MIN == 12 * 60

\* checkIsGoldWindow with the bound of the window left out of it.
checkIsGoldWindow_Open(nextReviewDate, now) ==
    IF nextReviewDate = ABSENT THEN FALSE
    ELSE IF IsNaN(GetTime(nextReviewDate)) THEN FALSE
    ELSE Abs(now - GetTime(nextReviewDate)) < WINDOW_MIN

\* checkIsGoldWindow(nextReviewDate)
checkIsGoldWindow(nextReviewDate, now) ==
    IF nextReviewDate = ABSENT THEN FALSE
    ELSE LET due == GetTime(nextReviewDate)
             diff == now - due
         IN IF IsNaN(due) THEN FALSE ELSE Abs(diff) <= WINDOW_MIN

\* formatReviewLabelLocal(date)
formatReviewLabelLocal(date) ==
    IF IsNaN(GetTime(date)) THEN PlainLabel("-") ELSE LocaleDate(date)

-----------------------------------------------------------------------------
(* Inputs of the exploration *)

\* The moment the exploration starts: day 10 of the month, 00:00 local time.
T0 == 10 * DAY_MIN

\* Seconds a learner may take: a rushed answer (which earns the speed bonus)
\* and a slow one.
TimesTaken == {3, 70}

\* Whether the clock moves on between two reads of it within one call.
Drifts == {0, 1}

\* Configurations: the documented one (alpha_good 0.3, gamma_fail 0.5,
\* k_rt_bonus 0.2, cap 365) and one with a first interval of half a day, modest
\* growth and no cap configured.
DocumentedSettings ==
    [S_default_days |-> FP, gamma_fail |-> 500, alpha_good |-> 300,
     alpha_easy |-> 500, alpha_hard |-> 100, k_rt_bonus |-> 200,
     stabilityCapDays |-> 365 * FP]
ShortSettings ==
    [S_default_days |-> 500, gamma_fail |-> 800, alpha_good |-> 150,
     alpha_easy |-> 200, alpha_hard |-> 100, k_rt_bonus |-> 100,
     stabilityCapDays |-> 0]
SettingsSet == {DocumentedSettings, ShortSettings}

\* A stored question with no scheduling state yet.
NewQuestion ==
    [id |-> <<"q", "_", "1">>, lawRef |-> <<" ", "C", "F", "5">>, litRef |-> <<>>,
     LIT_REF |-> <<>>, tags |-> <<>>, isGapType |-> FALSE, hasQuestionText |-> TRUE,
     stability |-> 0, difficulty |-> 0, masteryScore |-> 0, totalAttempts |-> 0,
     lastWasCorrect |-> FALSE, lastReviewedAt |-> ABSENT, nextReviewDate |-> ABSENT]

\* Scheduling states a stored item may be loaded with: never graded, or graded
\* before with some stability and difficulty; its last review one or ten days
\* ago, unparseable, or (a clock set back since) a day ahead.
SrsStabilities == {300, 10 * FP, 365 * FP}
SrsDifficulties == {100, FP}
SrsLastReviews == {INVALID, T0 - 10 * DAY_MIN, T0 + DAY_MIN}

SrsItems ==
    {NewQuestion} \cup
    { [NewQuestion EXCEPT !.stability = st, !.difficulty = d, !.lastReviewedAt = lr,
                          !.totalAttempts = 1, !.masteryScore = 40 * FP,
                          !.nextReviewDate = IF lr = INVALID THEN T0
                                             ELSE lr + DaysToOffset(st)]
      : st \in SrsStabilities, d \in SrsDifficulties, lr \in SrsLastReviews }

\* Two references as stored data spells them, and their canonical forms.
REF_CF5 == <<"c", "f", "5">>
REF_CP9 == <<"c", "p", "9">>
RAW_CF5 == <<" ", "C", "F", "5">>

\* A stored flashcard with no scheduling state yet.
NewFlashcard ==
    [NewQuestion EXCEPT !.id = <<"f", "c", "_", "1">>, !.lawRef = <<>>,
                        !.litRef = REF_CF5, !.hasQuestionText = FALSE]

\* item with the scheduling state of `attempts` gradings, the last one at
\* lastReview with stability stab (days), due at `due`.
Scheduled(item, attempts, lastReview, stab, due, mastery) ==
    [item EXCEPT !.totalAttempts = attempts, !.lastReviewedAt = lastReview,
                 !.stability = stab * FP, !.difficulty = 500,
                 !.masteryScore = mastery * FP, !.nextReviewDate = due,
                 !.lastWasCorrect = TRUE]

\* The questions a store may hold: never attempted (with a left-over due date),
\* overdue by three days and by one day, an overdue gap, due later today, attempted
\* with a due date that does not parse, and an overdue one of another reference.
AggQuestions ==
    { [NewQuestion EXCEPT !.nextReviewDate = T0 - 5 * DAY_MIN],
      Scheduled(NewQuestion, 2, T0 - 6 * DAY_MIN, 3, T0 - 3 * DAY_MIN, 30),
      Scheduled(NewQuestion, 1, T0 - 2 * DAY_MIN, 1, T0 - DAY_MIN, 20),
      Scheduled([NewQuestion EXCEPT !.isGapType = TRUE],
                1, T0 - 3 * DAY_MIN, 1, T0 - 2 * DAY_MIN, 20),
      Scheduled(NewQuestion, 1, T0 - DAY_MIN + 120, 1, T0 + 120, 20),
      Scheduled(NewQuestion, 1, T0 - DAY_MIN, 1, INVALID, 20),
      Scheduled([NewQuestion EXCEPT !.lawRef = REF_CP9],
                1, T0 - 2 * DAY_MIN, 1, T0 - DAY_MIN, 20) }

\* The flashcards a store may hold: never attempted, an overdue pair, one due in
\* two days that only a tag links, an overdue one of another reference that a tag
\* links, and a never-attempted pair with a left-over due date.
AggFlashcards ==
    { NewFlashcard,
      Scheduled([NewFlashcard EXCEPT !.tags = <<PAIR_MATCH>>],
                1, T0 - 4 * DAY_MIN, 2, T0 - 2 * DAY_MIN, 40),
      Scheduled([NewFlashcard EXCEPT !.litRef = <<>>, !.tags = <<RAW_CF5>>],
                1, T0 - DAY_MIN, 3, T0 + 2 * DAY_MIN, 30),
      Scheduled([NewFlashcard EXCEPT !.litRef = REF_CP9, !.tags = <<REF_CF5>>],
                1, T0 - 2 * DAY_MIN, 1, T0 - DAY_MIN, 20),
      [NewFlashcard EXCEPT !.tags = <<PAIR_MATCH>>,
                           !.nextReviewDate = T0 - 8 * DAY_MIN] }

\* The references a status is asked for: one that canonicalizes to cf5, and two
\* that canonicalize to the empty string.
Targets == { <<"C", "F", "5", " ">>, <<"ZWSP", " ">>, <<>> }

\* Strings given to the canonicalizer: nothing, or TRILHA_ in upper case, in
\* mixed case or with a fullwidth A, between up to MaxPad units each side of
\* white space, zero-width units and a fullwidth letter.
PadUnits == {" ", "NBSP", "BOM", "ZWSP", "FW_A"}
Pads == UNION { [1..n -> PadUnits] : n \in 0..MaxPad }
Heads == { <<>>, TRILHA, <<"t", "R", "i", "l", "h", "a", "_">>,
           <<"T", "R", "I", "L", "H", "FW_A", "_">> }
CanonInputs == { a \o h \o b : a \in Pads, h \in Heads, b \in Pads }

\* Stored questions the functions are applied to on their own: never attempted but
\* carrying a mastery and a last review (one that parses, one that does not), and
\* two overdue ones, a day and three days, and one whose last review lies a
\* day ahead of the clock (the clock set back since, or the review synced from
\* a device ahead of this one).
PureQuestions ==
    { [NewQuestion EXCEPT !.masteryScore = 50 * FP, !.stability = 3 * FP,
                          !.lastReviewedAt = T0 - DAY_MIN,
                          !.nextReviewDate = T0 - 5 * DAY_MIN],
      [NewQuestion EXCEPT !.masteryScore = 50 * FP, !.lastReviewedAt = INVALID],
      Scheduled(NewQuestion, 1, T0 - 2 * DAY_MIN, 1, T0 - DAY_MIN, 20),
      Scheduled(NewQuestion, 2, T0 - 6 * DAY_MIN, 3, T0 - 3 * DAY_MIN, 30),
      Scheduled(NewQuestion, 1, T0 + DAY_MIN, 1, T0 + 2 * DAY_MIN, 20) }
PureFlashcards ==
    { NewFlashcard,
      Scheduled(NewFlashcard, 1, T0 - 4 * DAY_MIN, 2, T0 - 2 * DAY_MIN, 40) }

\* Items given to resolveLitRef: every combination of a few values of each
\* field it looks at, blank and invisible ones among them.
ResolveLitRefs == { <<>>, <<" ">>, <<"ZWSP">>, RAW_CF5 }
ResolveLawRefs == { <<>>, <<" ">>, REF_CP9 }
ResolveAliases == { <<>>, <<" ">>, <<"C", "F", "7">> }
ResolveTags ==
    { <<>>, <<PAIR_MATCH, <<"c", "f">>, <<"C", "F", "8">>, REF_CP9>>,
      <<<<" ", " ", " ">>, REF_CF5>>, <<ToUpperCase(FLASHCARD)>> }
ResolveIds ==
    { <<"q", "_", "1">>, <<"f", "c", "_", "1">>, <<"t", "e", "m", "p", "_", "1">>,
      <<"A", "R", "T", "5">> }
ResolveInputs ==
    { [NewQuestion EXCEPT !.litRef = a, !.lawRef = b, !.LIT_REF = c,
                          !.tags = t, !.id = d] :
        a \in ResolveLitRefs, b \in ResolveLawRefs, c \in ResolveAliases,
        t \in ResolveTags, d \in ResolveIds }

\* Dates given to the date utilities: none, one that does not parse, and
\* moments up to MaxHours hours before and after now, on the hour and a minute
\* either side of it.
DateInputs ==
    { ABSENT, INVALID }
    \cup { T0 + h * 60 + m : h \in (0 - MaxHours)..MaxHours, m \in {-1, 0, 1} }

\* Days given to addDaysISO and addDaysToDate: a fraction below and above 0.05,
\* whole days, and NaN.
DayInputs == { 20, 500, 2 * FP, NaN }

\* null, for a Question, an option key and a session summary.
NoQuestion == [id |-> <<>>]
NoOption == "null"
NoSummary == [kind |-> "none"]

\* The React state of StudySessionModal (with the two props and the setting its
\* handlers read) and of the QuestionRunner it renders, before a session opens.
\* blockReason is what the runner computes from the Trapscan state on each
\* render: whether there is a reason to block the submission.
NoSession ==
    [isOpen |-> FALSE, showHistoryAfterAnswer |-> FALSE, sessionType |-> "questions",
     sessionQueue |-> <<>>, currentIndex |-> 0, answeredQuestions |-> <<>>,
     reportQuestion |-> NoQuestion, summaryResult |-> NoSummary,
     isLeaveConfirmOpen |-> FALSE,
     selectedOption |-> NoOption, isRevealed |-> FALSE, blockReason |-> FALSE]

NoCall == [kind |-> "none"]
NoStatus == [kind |-> "none"]

\* Whole days elapsed since the start, and the minutes the clock has moved on
\* while calls were running.
DaysElapsed == (clock - T0) \div DAY_MIN
Drifted == (clock - T0) % DAY_MIN

-----------------------------------------------------------------------------
(* Operations *)

\* Time passes between two operations.
Tick ==
    /\ DaysElapsed < MaxTicks
    /\ clock' = clock + DAY_MIN
    /\ UNCHANGED <<settings, questions, flashcards, call, status, gradings, session>>

\* A grading of stored question i: calculateNewSrsState on the stored item and,
\* unless it threw, the caller's merge of the patch and the store update.  The
\* clock may advance by `drift` between the two times the call reads it.
Grade(i, wasCorrect, rating, timeTaken, drift) ==
    /\ gradings < MaxGradings
    /\ LET item == questions[i]
           now == clock
           nowR == IF SamplesClock(item) THEN clock + drift ELSE clock
       IN \E p \in {calculateNewSrsState(item, wasCorrect, rating, timeTaken,
                                           settings, now, nowR)} :
          /\ call' = [kind |-> "grade", item |-> item, wasCorrect |-> wasCorrect,
                      rating |-> rating, timeTaken |-> timeTaken,
                      now |-> now, nowR |-> nowR,
                      currentR |-> calculateRetrievability(item, nowR),
                      threw |-> p.threw,
                      patch |-> IF p.threw THEN NoCall ELSE p]
          /\ questions' = IF p.threw THEN questions
                          ELSE [questions EXCEPT ![i] = MergePatch(item, p)]
          /\ clock' = nowR
    /\ gradings' = gradings + 1
    /\ UNCHANGED <<settings, flashcards, status, session>>

\* Query writing the sorted pending order back into the question store.
Query_SortsStore(target, drift) ==
    /\ Drifted + drift <= MaxGradings
    /\ \E res \in {getLitRefSmartStatus(target, questions, flashcards,
                                        clock, clock)} :
          status' = [kind |-> "status", target |-> target,
                     nowTs |-> clock, nowR |-> clock, result |-> res]
    /\ questions' = SortByDate(SelectSeq(questions, LAMBDA q : q.nextReviewDate >= 0),
                               <<>>)
    /\ UNCHANGED <<clock, settings, flashcards, call, gradings, session>>

\* A status query for reference `target`: getLitRefSmartStatus on the two
\* stores as they are.  The clock may advance by `drift` between the call's own
\* reading of it and the readings calculateRetrievability takes, when the
\* group has an item that makes it take one.
Query(target, drift) ==
    /\ Drifted + drift <= MaxGradings
    /\ LET nowTs == clock
           nowR == IF \E j \in DOMAIN Gathered(target, questions, flashcards) :
                        LET item == Gathered(target, questions, flashcards)[j]
                        IN item.totalAttempts > 0 /\ SamplesClock(item)
                   THEN clock + drift ELSE clock
       IN /\ \E res \in {getLitRefSmartStatus(target, questions, flashcards,
                                              nowTs, nowR)} :
                status' = [kind |-> "status", target |-> target,
                           nowTs |-> nowTs, nowR |-> nowR, result |-> res]
          /\ clock' = nowR
    /\ UNCHANGED <<settings, questions, flashcards, call, gradings, session>>

\* calculateNewSrsState applied to the stored question i, on its own: the patch
\* is returned and nothing is assigned to the item.
Compute(i, wasCorrect, rating, timeTaken) ==
    /\ \E p \in {calculateNewSrsState(questions[i], wasCorrect, rating, timeTaken,
                                      settings, clock, clock)} :
          call' = [kind |-> "patch", item |-> questions[i], index |-> i,
                   threw |-> p.threw, patch |-> IF p.threw THEN NoCall ELSE p]
    /\ UNCHANGED <<clock, settings, questions, flashcards, status, gradings, session>>

\* calculateCurrentDomain applied to the stored question i.
Domain(i) ==
    /\ call' = [kind |-> "domain", item |-> questions[i], now |-> clock,
                value |-> calculateCurrentDomain(questions[i], clock)]
    /\ UNCHANGED <<clock, settings, questions, flashcards, status, gradings, session>>

\* canonicalizeLitRef applied to v, and again to what it returned.
Canonicalize(v) ==
    /\ call = NoCall
    /\ call' = [kind |-> "canonicalize", v |-> v,
                once |-> canonicalizeLitRef(v),
                twice |-> canonicalizeLitRef(canonicalizeLitRef(v))]
    /\ UNCHANGED <<clock, settings, questions, flashcards, status, gradings, session>>

\* resolveLitRef applied to obj.
Resolve(obj) ==
    /\ call = NoCall
    /\ call' = [kind |-> "resolve", obj |-> obj, value |-> resolveLitRef(obj)]
    /\ UNCHANGED <<clock, settings, questions, flashcards, status, gradings, session>>

\* checkIsGoldWindow and isReviewFuture applied to a due date.
DueTests(due) ==
    /\ call = NoCall
    /\ call' = [kind |-> "due", date |-> due, now |-> clock,
                gold |-> checkIsGoldWindow(due, clock),
                future |-> isReviewFuture(due, clock)]
    /\ UNCHANGED <<clock, settings, questions, flashcards, status, gradings, session>>

\* formatISOToBr, formatReviewLabelLocal and toISODate applied to a date (the
\* last two take a Date object, never an absent one).
Format(date) ==
    /\ call = NoCall
    /\ date # ABSENT
    /\ call' = [kind |-> "format", date |-> date, now |-> clock,
                br |-> formatISOToBr(date),
                label |-> formatReviewLabelLocal(date),
                isoDate |-> toISODate(date, clock)]
    /\ UNCHANGED <<clock, settings, questions, flashcards, status, gradings, session>>

\* addDaysISO and addDaysToDate applied to a date and a number of days.
AddDays(date, days) ==
    /\ call = NoCall
    /\ date # ABSENT
    /\ call' = [kind |-> "addDays", date |-> date, days |-> days, now |-> clock,
                iso |-> addDaysISO(date, days, clock),
                added |-> addDaysToDate(date, days, clock)]
    /\ UNCHANGED <<clock, settings, questions, flashcards, status, gradings, session>>

-----------------------------------------------------------------------------
(* The memory model on one stored item *)

InitSrs ==
    /\ clock = T0
    /\ settings \in SettingsSet
    /\ questions \in {<<q>> : q \in SrsItems}
    /\ flashcards = <<>>
    /\ call = NoCall
    /\ status = NoStatus
    /\ gradings = 0
    /\ session = NoSession

NextSrs ==
    \/ Tick
    \/ \E i \in DOMAIN questions, wasCorrect \in BOOLEAN, rating \in 0..3,
          timeTaken \in TimesTaken :
            Grade(i, wasCorrect, rating, timeTaken, 0)

SpecSrs == InitSrs /\ [][NextSrs]_vars

\* One stored question, new or reviewed before, and one flashcard, with the
\* clock free to move on while a call runs.
InitClock ==
    /\ clock = T0
    /\ settings = DocumentedSettings
    /\ questions \in { <<NewQuestion>>,
                       <<Scheduled(NewQuestion, 1, T0 - 2 * DAY_MIN, 1,
                                   T0 - DAY_MIN, 20)>> }
    /\ flashcards = <<NewFlashcard>>
    /\ call = NoCall
    /\ status = NoStatus
    /\ gradings = 0
    /\ session = NoSession

NextClock ==
    \/ Tick
    \/ \E i \in DOMAIN questions, wasCorrect \in BOOLEAN, rating \in 0..3,
          timeTaken \in TimesTaken, drift \in Drifts :
            Grade(i, wasCorrect, rating, timeTaken, drift)
    \/ \E drift \in Drifts : Query(RAW_CF5, drift)

SpecClock == InitClock /\ [][NextClock]_vars

-----------------------------------------------------------------------------
(* The aggregation over stores of a few items *)

InitAgg ==
    /\ clock = T0
    /\ settings = DocumentedSettings
    /\ questions \in [1..NQ -> AggQuestions]
    /\ flashcards \in [1..NF -> AggFlashcards]
    /\ call = NoCall
    /\ status = NoStatus
    /\ gradings = 0
    /\ session = NoSession

NextAgg ==
    \/ Tick
    \/ \E target \in Targets : Query(target, 0)

SpecAgg == InitAgg /\ [][NextAgg]_vars

-----------------------------------------------------------------------------
(* The functions applied on their own *)

InitPure ==
    /\ clock = T0
    /\ settings = DocumentedSettings
    /\ questions \in [1..NQ -> PureQuestions]
    /\ flashcards \in [1..NF -> PureFlashcards]
    /\ call = NoCall
    /\ status = NoStatus
    /\ gradings = 0
    /\ session = NoSession

NextPure ==
    \/ \E i \in DOMAIN questions, rating \in 0..3 :
          Compute(i, rating > 0, rating, 3)
    \/ \E i \in DOMAIN questions : Domain(i)
    \/ Query(RAW_CF5, 0)

SpecPure == InitPure /\ [][NextPure]_vars

InitCanon ==
    /\ clock = T0
    /\ settings = DocumentedSettings
    /\ questions = <<>>
    /\ flashcards = <<>>
    /\ call = NoCall
    /\ status = NoStatus
    /\ gradings = 0
    /\ session = NoSession

NextCanon == \E v \in CanonInputs : Canonicalize(v)

SpecCanon == InitCanon /\ [][NextCanon]_vars

NextResolve == \E obj \in ResolveInputs : Resolve(obj)

SpecResolve == InitCanon /\ [][NextResolve]_vars

NextDates ==
    \/ \E due \in DateInputs : DueTests(due)
    \/ \E date \in DateInputs : Format(date)
    \/ \E date \in DateInputs, days \in DayInputs : AddDays(date, days)

SpecDates == InitCanon /\ [][NextDates]_vars

-----------------------------------------------------------------------------
(* Properties of the memory model *)

Graded == call.kind = "grade"
Returned == Graded /\ ~call.threw

\* An item as the data model describes it: stability positive or missing,
\* difficulty in [0.1, 1.0] or missing, last review missing or a date not
\* after the moment of grading.
ValidItem(item, now) ==
    /\ item.stability >= 0
    /\ item.difficulty = 0 \/ (item.difficulty >= 100 /\ item.difficulty <= FP)
    /\ item.lastReviewedAt = ABSENT
       \/ (item.lastReviewedAt >= 0 /\ item.lastReviewedAt <= now)

\* C1.  Clamp invariants: every grading of a valid item, first or after any
\* number of earlier gradings merged into it, returns a patch with difficulty
\* in [0.1, 1.0], masteryScore in [0, 100] and 0 < stability <= stabilityCapDays
\* (365 when none is configured).
ClampInvariants ==
    (Graded /\ ValidItem(call.item, call.now)) =>
        /\ ~call.threw
        /\ call.patch.difficulty >= 100 /\ call.patch.difficulty <= FP
        /\ call.patch.masteryScore >= 0 /\ call.patch.masteryScore <= 100 * FP
        /\ call.patch.stability > 0
        /\ call.patch.stability <= StabilityCap(settings)

\* C1 witness: a second grading, of an item whose stability the cap holds down
\* and whose difficulty sits at the upper clamp.
ClampWitness ==
    /\ Returned /\ ValidItem(call.item, call.now)
    /\ gradings >= 2 /\ call.item.totalAttempts >= 2
    /\ call.wasCorrect /\ call.rating = 1
    /\ call.patch.stability = StabilityCap(settings)
    /\ call.patch.difficulty = FP

\* C2 as stated: an incorrect answer never returns a stability above the one
\* the item has.
FailureShortensInterval ==
    (Graded /\ ~call.wasCorrect /\ ValidItem(call.item, call.now)
            /\ call.item.stability > 0) =>
        (~call.threw /\ call.patch.stability <= call.item.stability)

\* C2 amended: an incorrect answer returns a stability of at most
\* max(0.5, S), S being the item's stability, or S_default_days when it has none.
FailureBoundedByFloor ==
    (Graded /\ ~call.wasCorrect) =>
        /\ ~call.threw
        /\ call.patch.stability <=
              Max2(500, OrElse(call.item.stability, settings.S_default_days))
        /\ call.item.stability >= 500 => call.patch.stability <= call.item.stability

\* C2 witness: an incorrect answer that cut a stability of at least half a day.
FailureWitness ==
    /\ Returned /\ ~call.wasCorrect
    /\ call.item.stability >= 500
    /\ call.patch.stability < call.item.stability

\* C4 as stated: the due date is the moment of grading plus the new stability
\* in days, its fraction of a day included.
NextDueIsNowPlusStability ==
    (Returned /\ ValidItem(call.item, call.now)) =>
        call.patch.nextReviewDate =
            call.patch.lastReviewedAt + DaysToOffset(call.patch.stability)

\* C5 as stated: an item whose lastReviewedAt does not parse still gets a
\* patch, with a due date that parses.
NoThrowOnBadDate ==
    (Graded /\ call.item.lastReviewedAt = INVALID) =>
        (~call.threw /\ call.patch.nextReviewDate >= 0)

\* C6 as stated: a never-attempted item without stability, graded correct and
\* easy, gets a mastery of at least 15 and a due date after the grading.
BrandNewEasy ==
    (Graded /\ call.item.totalAttempts = 0 /\ call.item.stability = 0
            /\ call.item.lastReviewedAt = ABSENT
            /\ call.wasCorrect /\ call.rating = 3) =>
        /\ ~call.threw
        /\ call.patch.masteryScore >= 15 * FP
        /\ call.patch.nextReviewDate > call.now

-----------------------------------------------------------------------------
(* Properties of the aggregation *)

Asked == status.kind = "status"
TargetCanon == canonicalizeLitRef(status.target)

\* The stored items the aggregate for the asked target gathers.
Matched == Gathered(status.target, questions, flashcards)

\* An item is attempted; its due date parses; it is overdue, or due in the
\* future, at the moment the status was asked.
Attempted(item) == item.totalAttempts > 0
HasDueDate(item) == item.nextReviewDate >= 0
IsOverdue(item) ==
    Attempted(item) /\ HasDueDate(item) /\ item.nextReviewDate <= status.nowTs
IsFuture(item) ==
    Attempted(item) /\ HasDueDate(item) /\ item.nextReviewDate > status.nowTs

\* The sub-kind of a stored item.
SubKindOf(item) ==
    IF item.hasQuestionText THEN TotalKindOfQuestion(item)
    ELSE TotalKindOfFlashcard(item)

\* How many matched items of sub-kind k are attempted and due in the future.
FutureCount(k) ==
    Len(SelectSeq(Matched, LAMBDA i : SubKindOf(i) = k /\ IsFuture(i)))

\* C3 as stated.  Count conservation: for each sub-kind, the total count is the
\* pending count plus the not-started count plus the number of matched items
\* of that sub-kind that are attempted and due in the future.
CountConservation ==
    Asked =>
        \A k \in SubKinds :
            status.result.counts.total[k] =
                status.result.counts.pending[k]
                + status.result.counts.notStarted[k] + FutureCount(k)

\* The due dates of the overdue items of the group.
OverdueDates ==
    { Matched[i].nextReviewDate : i \in { j \in DOMAIN Matched : IsOverdue(Matched[j]) } }
OldestOverdue == CHOOSE d \in OverdueDates : \A e \in OverdueDates : d <= e

\* C7 as stated.  Oldest overdue: when the aggregate counts overdue items, its
\* label is ATRASADA with the day, month, hour and minute of the minimum due
\* date among the overdue items, and its nextReviewDate is that date, whatever
\* future-due or unattempted items the group holds.
OldestOverdueDecides ==
    (Asked /\ status.result.overdueItems > 0) =>
        /\ OverdueDates # {}
        /\ status.result.nextReviewDate = OldestOverdue
        /\ status.result.nextReviewLabel = OverdueLabel(OldestOverdue)

\* How many items of both stores isLinked links to the asked target.
LinkedCount ==
    Len(SelectSeq(questions, LAMBDA q : isLinked(q, TargetCanon)))
    + Len(SelectSeq(flashcards, LAMBDA fc : isLinked(fc, TargetCanon)))

\* C8 as stated.  Group membership: the aggregate includes an item of either
\* store if and only if isLinked links it to the canonical target, so the
\* aggregate's totalItems is the number of linked items, and its items are the
\* linked ones.
MembershipIsLinked ==
    Asked =>
        /\ status.result.totalItems = LinkedCount
        /\ \A i \in DOMAIN questions :
              (\E j \in DOMAIN Matched : Matched[j] = questions[i])
                  <=> isLinked(questions[i], TargetCanon)
        /\ \A i \in DOMAIN flashcards :
              (\E j \in DOMAIN Matched : Matched[j] = flashcards[i])
                  <=> isLinked(flashcards[i], TargetCanon)

\* The status is all zero: domain, mastery and every count 0, every list empty,
\* no review date.
AllZero(res) ==
    /\ res.domain = 0 /\ res.mastery = 0
    /\ res.totalItems = 0 /\ res.reviewedItems = 0 /\ res.overdueItems = 0
    /\ \A k \in SubKinds :
          /\ res.counts.total[k] = 0
          /\ res.counts.pending[k] = 0
          /\ res.counts.notStarted[k] = 0
          /\ res.lists[k] = <<>>
    /\ res.nextReviewDate = ABSENT /\ res.nextDueAtFuture = ABSENT

\* C9 as stated.  Empty target: a target that canonicalizes to the empty string
\* gets an all-zero status with empty lists, labelled Novo.
EmptyTargetIsNovo ==
    (Asked /\ TargetCanon = <<>>) =>
        /\ AllZero(status.result)
        /\ status.result.nextReviewLabel = PlainLabel("Novo")

\* C9 amended.  Empty target: a target that canonicalizes to the empty string
\* gets an all-zero status with empty lists, labelled with the dash the result
\* object starts with, whatever the stores hold.
EmptyTargetIsZero ==
    (Asked /\ TargetCanon = <<>>) =>
        /\ AllZero(status.result)
        /\ status.result.nextReviewLabel = PlainLabel("-")

\* C9 witness: a target of invisible characters only was asked for while the
\* stores held an attempted, overdue question.
EmptyTargetWitness ==
    /\ Asked /\ status.target # <<>> /\ TargetCanon = <<>>
    /\ \E i \in DOMAIN questions :
          Attempted(questions[i]) /\ IsOverdue(questions[i])
    /\ AllZero(status.result)

\* The sum of f over the four sub-kinds.
OverKinds(f) == f["questions"] + f["gaps"] + f["flashcards"] + f["pairs"]

\* The items of the four pending lists, one after the other.
AllPending ==
    status.result.lists["questions"] \o status.result.lists["gaps"]
    \o status.result.lists["flashcards"] \o status.result.lists["pairs"]

\* C14.  Tally consistency: overdueItems is the sum of the four pending counts
\* and the total length of the four pending lists; every listed item is attempted
\* and due not after now; never-attempted items are counted in notStarted only.
TallyConsistent ==
    Asked =>
        /\ status.result.overdueItems = OverKinds(status.result.counts.pending)
        /\ status.result.overdueItems = Len(AllPending)
        /\ \A k \in SubKinds :
              status.result.counts.pending[k] = Len(status.result.lists[k])
        /\ \A i \in DOMAIN AllPending : IsOverdue(AllPending[i])
        /\ OverKinds(status.result.counts.notStarted)
              = Len(SelectSeq(Matched, LAMBDA i : ~Attempted(i)))
        /\ status.result.overdueItems = Len(SelectSeq(Matched, IsOverdue))

\* C14 witness: a group with two overdue items of different sub-kinds and a
\* never-attempted item whose left-over due date is past.
TallyWitness ==
    /\ Asked /\ status.result.overdueItems >= 2
    /\ Len(status.result.lists["questions"]) >= 1
    /\ Len(status.result.lists["pairs"]) >= 1
    /\ \E i \in DOMAIN Matched :
          /\ ~Attempted(Matched[i])
          /\ HasDueDate(Matched[i]) /\ Matched[i].nextReviewDate <= status.nowTs
    /\ OverKinds(status.result.counts.notStarted) >= 1

\* The sums over the attempted items of seq of their current domain at `now`
\* and of their mastery.
RECURSIVE DomainTotal(_, _)
DomainTotal(seq, now) ==
    IF seq = <<>> THEN 0
    ELSE Add(IF Attempted(Head(seq)) THEN calculateCurrentDomain(Head(seq), now) ELSE 0,
             DomainTotal(Tail(seq), now))
RECURSIVE MasteryTotal(_)
MasteryTotal(seq) ==
    IF seq = <<>> THEN 0
    ELSE Add(IF Attempted(Head(seq)) THEN Head(seq).masteryScore ELSE 0,
             MasteryTotal(Tail(seq)))

\* C15.  Group averages: domain and mastery are the sums of the current domain
\* and of the mastery over the attempted matched items, divided by the number of
\* all matched items; both are 0, not NaN, when nothing is matched or nothing
\* has been attempted.
GroupAverages ==
    Asked =>
        /\ Len(Matched) > 0 =>
              /\ status.result.domain
                    = Div(DomainTotal(Matched, status.nowR), Len(Matched) * FP)
              /\ status.result.mastery
                    = Div(MasteryTotal(Matched), Len(Matched) * FP)
        /\ (\A i \in DOMAIN Matched : ~Attempted(Matched[i])) =>
              (status.result.domain = 0 /\ status.result.mastery = 0)

\* C15 witness: a group of three with two attempted items of different mastery
\* and one never attempted, whose average mastery is their sum over three.
GroupAveragesWitness ==
    /\ Asked /\ Len(Matched) = 3
    /\ Len(SelectSeq(Matched, Attempted)) = 2
    /\ \E i, j \in DOMAIN Matched :
          /\ Attempted(Matched[i]) /\ Attempted(Matched[j])
          /\ Matched[i].masteryScore < Matched[j].masteryScore
    /\ status.result.mastery > 0 /\ status.result.domain > 0
    /\ status.result.mastery * 3 <= MasteryTotal(Matched)
    /\ status.result.mastery * 3 > MasteryTotal(Matched) - 3

\* The due dates of the matched items that are attempted and due in the future.
FutureDates ==
    { Matched[i].nextReviewDate : i \in { j \in DOMAIN Matched : IsFuture(Matched[j]) } }
SoonestFuture == CHOOSE d \in FutureDates : \A e \in FutureDates : d <= e

PendingListsSorted ==
    Asked =>
        \A k \in SubKinds :
            \A i \in 1..(Len(status.result.lists[k]) - 1) :
                status.result.lists[k][i].nextReviewDate
                    <= status.result.lists[k][i + 1].nextReviewDate

\* C17 witness: a pending list of two whose first item is due before the second
\* and comes after it in the store.
PendingListsSortedWitness ==
    /\ Asked /\ Len(status.result.lists["questions"]) = 2
    /\ status.result.lists["questions"][1].nextReviewDate
          < status.result.lists["questions"][2].nextReviewDate
    /\ status.result.lists["questions"][1] = questions[2]
    /\ status.result.lists["questions"][2] = questions[1]

-----------------------------------------------------------------------------
(* Properties of the clock *)

\* C10 as stated: within one call every time-dependent value is computed
\* against one instant, even if the clock advances while the call runs.  The
\* retrievability calculateNewSrsState uses is the one at the instant it stamps
\* lastReviewedAt with, and the domain getLitRefSmartStatus reports is the one at
\* the instant of its due <= now comparison.
OneClockSamplePerCall ==
    /\ Graded =>
          /\ call.nowR = call.now
          /\ call.currentR = calculateRetrievability(call.item, call.now)
    /\ Asked =>
          /\ status.nowR = status.nowTs
          /\ status.result.domain =
                getLitRefSmartStatus(status.target, questions, flashcards,
                                     status.nowTs, status.nowTs).domain

-----------------------------------------------------------------------------
(* Properties of the functions on their own *)

Canonicalized == call.kind = "canonicalize"

InputsUntouched ==
    [][questions' = questions /\ flashcards' = flashcards]_vars

\* C12 witness: a patch was returned that differs from the item it was computed
\* for, and a status was returned whose pending list is in another order than
\* the store, and the stores are as they were.
InputsWitness ==
    /\ call.kind = "patch" /\ ~call.threw
    /\ call.item = questions[call.index]
    /\ call.patch.stability # call.item.stability
    /\ status.kind = "status"
    /\ Len(status.result.lists["questions"]) = 2
    /\ status.result.lists["questions"][1] = questions[2]
    /\ status.result.lists["questions"][1] # questions[1]

\* C13.  Unattempted domain is zero: calculateCurrentDomain returns 0 for an
\* item never attempted, whatever its mastery, stability and last review.
UnattemptedDomainZero ==
    (call.kind = "domain" /\ call.item.totalAttempts = 0) => call.value = 0

\* C13 witness: the domain of a never-attempted item that has a mastery and a
\* last review was computed.
UnattemptedDomainWitness ==
    /\ call.kind = "domain" /\ call.item.totalAttempts = 0
    /\ call.item.masteryScore > 0 /\ call.item.lastReviewedAt >= 0
    /\ call.value = 0

\* The candidates resolveLitRef goes through, in order: litRef, lawRef,
\* LIT_REF, the first tag that is no reserved marker and longer than two units,
\* and the id unless it is a generated one.
Candidates(obj) ==
    <<obj.litRef, obj.lawRef, obj.LIT_REF, FindValidTag(obj.tags),
      IF \/ StartsWith(obj.id, <<"q", "_">>)
         \/ StartsWith(obj.id, <<"f", "c", "_">>)
         \/ StartsWith(obj.id, <<"t", "e", "m", "p", "_">>)
      THEN <<>> ELSE obj.id>>

\* The canonical form of the first candidate that has a non-empty one, or ''.
RECURSIVE FirstResolving(_)
FirstResolving(cands) ==
    IF cands = <<>> THEN <<>>
    ELSE IF canonicalizeLitRef(Head(cands)) # <<>>
         THEN canonicalizeLitRef(Head(cands))
         ELSE FirstResolving(Tail(cands))

\* C18 as stated.  resolveLitRef returns the canonical form of the first of its
\* candidates, in order, that resolves, and '' only when none of them resolves
\* to a non-empty key.
ResolveInOrder ==
    call.kind = "resolve" => call.value = FirstResolving(Candidates(call.obj))

MalformedDatesDegrade ==
    /\ (call.kind = "due" /\ call.date = INVALID) => (~call.gold /\ ~call.future)
    /\ (call.kind = "format" /\ call.date = INVALID) =>
          /\ call.br = PlainLabel("-") /\ call.label = PlainLabel("-")
          /\ ~call.isoDate.threw /\ call.isoDate.value = call.now \div DAY_MIN
    /\ (call.kind = "addDays" /\ call.date = INVALID) =>
          /\ ~call.iso.threw /\ call.iso.value = call.now
          /\ call.added = call.now

\* C20 witness: an unparseable date was formatted.
MalformedDatesWitness ==
    /\ call.kind = "format" /\ call.date = INVALID
    /\ call.br.text = "-" /\ ~call.isoDate.threw

-----------------------------------------------------------------------------
(* Properties of the difficulty and stability transitions *)

\* The difficulty a grading starts from: item.difficulty || 0.5.
CurrentD == OrElse(call.item.difficulty, 500)

\* C22.  Difficulty transition: the new difficulty is min(1.0, D + 0.2) after
\* an incorrect answer, max(0.1, D - 0.15) after a correct answer rated 3,
\* min(1.0, D + 0.1) after a correct answer rated 1 and D after a correct
\* answer rated 2, D being the item's difficulty, or 0.5 when it has none.
DifficultyTransition ==
    Returned =>
        /\ ~call.wasCorrect => call.patch.difficulty = Min2(FP, CurrentD + 200)
        /\ (call.wasCorrect /\ call.rating = 3) =>
              call.patch.difficulty = Max2(100, CurrentD - 150)
        /\ (call.wasCorrect /\ call.rating = 1) =>
              call.patch.difficulty = Min2(FP, CurrentD + 100)
        /\ (call.wasCorrect /\ call.rating = 2) => call.patch.difficulty = CurrentD

\* C22 witness: a second grading, rated easy, of an item whose first grading
\* had left it a difficulty other than the default.
DifficultyWitness ==
    /\ Returned /\ gradings >= 2
    /\ call.wasCorrect /\ call.rating = 3
    /\ call.item.difficulty > 500
    /\ call.patch.difficulty = call.item.difficulty - 150

\* C29.  A correct grading never lowers stability below what the cap allows:
\* for an item with retrievability in [0, 1] and difficulty in [0.1, 1] (or
\* none), under non-negative growth factors, a correct answer returns a
\* stability of at least min(current stability, stabilityCapDays).
CorrectNeverLowers ==
    (Graded /\ call.wasCorrect
            /\ call.currentR >= 0 /\ call.currentR <= FP
            /\ call.item.stability >= 0
            /\ (call.item.difficulty = 0
                \/ (call.item.difficulty >= 100 /\ call.item.difficulty <= FP))) =>
        /\ ~call.threw
        /\ call.patch.stability >=
              Min2(OrElse(call.item.stability, settings.S_default_days),
                   StabilityCap(settings))

\* C29 witness: a correct answer for an item already at the cap, which the
\* growth would have carried beyond it, and which stays at the cap.
CorrectNeverLowersWitness ==
    /\ Returned /\ call.wasCorrect
    /\ call.currentR >= 0 /\ call.currentR <= FP
    /\ call.item.stability = StabilityCap(settings)
    /\ call.patch.stability = call.item.stability

-----------------------------------------------------------------------------
(* Retrievability over time *)

\* Instants are taken in half-stabilities after the last review: up to
\* DecaySteps of them, where e^(-t/S) is above the resolution of the
\* arithmetic here, and two instants UnderflowAt and UnderflowAt + 1
\* stabilities after it, where e^(-t/S) is below the smallest double
\* (e^-745) and Math.exp returns 0.
DecaySteps == 12
UnderflowAt == 800

\* Items reviewed at the epoch with a stability of half a day, none (read as
\* one day) or a day and a half, and an item never reviewed.
DecayItems ==
    {NewQuestion} \cup
    { [NewQuestion EXCEPT !.stability = st, !.lastReviewedAt = 0,
                          !.totalAttempts = 1, !.masteryScore = 40 * FP]
      : st \in {0, 500, 1500} }

\* The instants at which an item's retrievability is read, in minutes.
DecayInstants(item) ==
    LET half == DaysToOffset(OrElse(item.stability, FP)) \div 2
    IN { j * half : j \in 0..DecaySteps }
       \cup { 2 * half * UnderflowAt, 2 * half * (UnderflowAt + 1) }

\* calculateRetrievability applied to one item at two instants.
Decay(item, earlier, later) ==
    /\ call = NoCall
    /\ earlier < later
    /\ call' = [kind |-> "decay", item |-> item,
                earlier |-> earlier, later |-> later,
                rEarlier |-> calculateRetrievability(item, earlier),
                rLater |-> calculateRetrievability(item, later)]
    /\ UNCHANGED <<clock, settings, questions, flashcards, status, gradings, session>>

NextDecay ==
    \E item \in DecayItems : \E earlier, later \in DecayInstants(item) :
        Decay(item, earlier, later)

SpecDecay == InitCanon /\ [][NextDecay]_vars

Decayed == call.kind = "decay"

\* The time elapsed at the later instant, in stabilities.
LaterRatio ==
    DivRaw(((call.later - call.item.lastReviewedAt) * FP) \div DAY_MIN,
           OrElse(call.item.stability, FP))

DomainWithinMastery ==
    call.kind = "domain" =>
        /\ ~IsNaN(call.value)
        /\ 0 <= call.value
        /\ call.value <= call.item.masteryScore

-----------------------------------------------------------------------------
(* The study session: StudySessionModal, QuestionRunner, QuestionActionsMenu *)

\* The stored questions a session is opened on: one never graded, one graded
\* once two days ago and marked critical.
SessionStore ==
    << [NewQuestion @@ [isCritical |-> FALSE, attemptHistory |-> <<>>,
                        selfEvalLevel |-> 0]
          EXCEPT !.id = <<"q", "_", "1">>],
       [NewQuestion @@ [isCritical |-> TRUE,
                        attemptHistory |->
                           << [date |-> T0 - 2 * DAY_MIN, wasCorrect |-> TRUE,
                               masteryAfter |-> 30 * FP, stabilityAfter |-> 3 * FP,
                               timeSec |-> 70, selfEvalLevel |-> 2,
                               timingClass |-> TimingClass(70)] >>,
                        selfEvalLevel |-> 2]
          EXCEPT !.id = <<"q", "_", "2">>, !.stability = 3 * FP, !.difficulty = 500,
                 !.masteryScore = 30 * FP, !.totalAttempts = 1,
                 !.lastWasCorrect = TRUE, !.lastReviewedAt = T0 - 2 * DAY_MIN,
                 !.nextReviewDate = T0 + DAY_MIN] >>

\* The lists of stored questions (by position) a session is opened with, the
\* setting and session type it runs under, the option keys of a question and
\* the four ratings of the runner's buttons.
SessionPicks == {<<2>>, <<1, 2>>}
SessionKinds ==
    { [showHistoryAfterAnswer |-> TRUE, sessionType |-> "questions"],
      [showHistoryAfterAnswer |-> TRUE, sessionType |-> "gaps"],
      [showHistoryAfterAnswer |-> FALSE, sessionType |-> "questions"] }
OptionKeys == {"A", "B"}
Ratings == {"again", "hard", "good", "easy"}

\* (Date.now() - startTimeRef.current) / 1000 at the click on a rating.
SecondsTaken == 7

\* The switch on the rating: evalLevel and isCorrectNow.
EvalLevel(rating) ==
    CASE rating = "again" -> 0
      [] rating = "hard" -> 1
      [] rating = "good" -> 2
      [] rating = "easy" -> 3
      [] OTHER -> 2

\* isCorrectNow with 'hard' counted as a failure too.
IsCorrectNow_HardFails(rating) == rating \notin {"again", "hard"}

IsCorrectNow(rating) == rating # "again"

\* The attempt record a grading appends.
AttemptRecord(p, isCorrectNow, evalLevel, timeTaken) ==
    [date |-> p.lastReviewedAt, wasCorrect |-> isCorrectNow,
     masteryAfter |-> p.masteryScore, stabilityAfter |-> p.stability,
     timeSec |-> timeTaken, selfEvalLevel |-> evalLevel,
     timingClass |-> p.timingClass]

\* Updated with the history replaced by the new record alone.
Updated_DropsHistory(currentQuestion, p, isCorrectNow, evalLevel, timeTaken) ==
    [MergePatch(currentQuestion, p)
       EXCEPT !.lastWasCorrect = isCorrectNow, !.selfEvalLevel = evalLevel,
              !.attemptHistory =
                  <<AttemptRecord(p, isCorrectNow, evalLevel, timeTaken)>>]

\* const updated = {...currentQuestion, ...questionUpdates, lastWasCorrect,
\* selfEvalLevel, totalAttempts + 1, attemptHistory: [...history, record]}
Updated(currentQuestion, p, isCorrectNow, evalLevel, timeTaken) ==
    [MergePatch(currentQuestion, p)
       EXCEPT !.lastWasCorrect = isCorrectNow, !.selfEvalLevel = evalLevel,
              !.attemptHistory =
                  Append(currentQuestion.attemptHistory,
                         AttemptRecord(p, isCorrectNow, evalLevel, timeTaken))]

\* updateQuestion of the question context: the stored question of the same id
\* is replaced by the one given.
updateQuestion(store, q) ==
    [i \in DOMAIN store |-> IF store[i].id = q.id THEN q ELSE store[i]]

\* const currentQuestion = sessionQueue[currentIndex], or null.
CurrentQuestion(s) ==
    IF Len(s.sessionQueue) > 0 /\ s.currentIndex < Len(s.sessionQueue)
    THEN s.sessionQueue[s.currentIndex + 1]
    ELSE NoQuestion

\* The QuestionRunner is rendered: the modal is open, shows no summary and has
\* a current question.
RunnerShown(s) ==
    s.isOpen /\ s.summaryResult = NoSummary /\ CurrentQuestion(s) # NoQuestion

\* The runner's buttons can be clicked: it is rendered and no modal lies over it.
RunnerActive(s) ==
    RunnerShown(s) /\ ~s.isLeaveConfirmOpen /\ s.reportQuestion = NoQuestion

\* The onClose prop: the parent closes the modal, which renders nothing until
\* it is opened again and the Init effect sets its state anew.
onClose(s) == NoSession

\* calculateSessionResult, as far as the list of answered questions goes.
calculateSessionResult(answeredQuestions, completed) ==
    [kind |-> "summary", answered |-> answeredQuestions, completed |-> completed]

\* A handler runs on the state of the render it was created in (`render`) and
\* queues state updates; `pending` is the state with the updates queued so far
\* applied.  finalizeSession reads answeredQuestions from its closure.
finalizeSession(render, pending, completed) ==
    IF Len(render.answeredQuestions) = 0
    THEN onClose(pending)
    ELSE [pending EXCEPT !.summaryResult =
              calculateSessionResult(render.answeredQuestions, completed)]

moveToNextQuestion(render, pending) ==
    LET cleared == [pending EXCEPT !.reportQuestion = NoQuestion]
    IN IF render.currentIndex < Len(render.sessionQueue) - 1
       THEN [cleared EXCEPT !.currentIndex = @ + 1]
       ELSE finalizeSession(render, cleared, TRUE)

\* The state updates handleRunnerResult queues once it has built `updated`.
handleRunnerResult(render, updated) ==
    [render EXCEPT
        !.answeredQuestions = Append(@, updated),
        !.reportQuestion =
            IF render.showHistoryAfterAnswer /\ render.sessionType # "gaps"
            THEN updated ELSE @]

\* handleRating of the runner: onResult(rating, ...) and then onNext(), both in
\* the same event and so on the same render.
handleRating(render, updated) ==
    moveToNextQuestion(render, handleRunnerResult(render, updated))

\* The runner's effect on [question.id], and its unmounting: selection and
\* reveal are reset when the committed state shows another question, or none.
ResetOnNewQuestion(before, after) ==
    IF RunnerShown(before) /\ RunnerShown(after)
       /\ CurrentQuestion(after).id = CurrentQuestion(before).id
    THEN after
    ELSE [after EXCEPT !.selectedOption = NoOption, !.isRevealed = FALSE]

\* handleOptionSelect without its test of isRevealed.
handleOptionSelect_AfterReveal(s, key, isLocked) ==
    IF ~isLocked THEN [s EXCEPT !.selectedOption = key] ELSE s

\* handleOptionSelect(key); isLocked stands for isLocked || isEliminationMode,
\* as the runner computed them from the Trapscan state.
handleOptionSelect(s, key, isLocked) ==
    IF ~s.isRevealed /\ ~isLocked THEN [s EXCEPT !.selectedOption = key] ELSE s

\* handleReveal()
handleReveal(s) ==
    IF s.blockReason THEN s ELSE [s EXCEPT !.isRevealed = TRUE]

\* The modal is opened on a list of stored questions: the Init effect.  No
\* grading was issued in this session yet.
OpenSession(picked, showHistory, sessionType) ==
    /\ ~session.isOpen
    /\ gradings < MaxGradings
    /\ session' = [NoSession EXCEPT
                      !.isOpen = TRUE,
                      !.showHistoryAfterAnswer = showHistory,
                      !.sessionType = sessionType,
                      !.sessionQueue = [k \in 1..Len(picked) |-> questions[picked[k]]]]
    /\ call' = NoCall
    /\ UNCHANGED <<clock, settings, questions, flashcards, status, gradings>>

\* The Trapscan gate reports new data: the runner computes blockReason anew.
TrapscanUpdate(blockReason) ==
    /\ RunnerActive(session)
    /\ blockReason # session.blockReason
    /\ session' = [session EXCEPT !.blockReason = blockReason]
    /\ UNCHANGED <<clock, settings, questions, flashcards, call, status, gradings>>

\* A click on an option.
SelectOption(key, isLocked) ==
    /\ RunnerActive(session)
    /\ session' = handleOptionSelect(session, key, isLocked)
    /\ UNCHANGED <<clock, settings, questions, flashcards, call, status, gradings>>

\* A click on the reveal button, rendered once an option is selected.
Reveal ==
    /\ RunnerActive(session)
    /\ session.selectedOption # NoOption /\ ~session.isRevealed
    /\ session' = handleReveal(session)
    /\ UNCHANGED <<clock, settings, questions, flashcards, call, status, gradings>>

\* A click on one of the four rating buttons, rendered once an option is
\* selected and the answer revealed: handleRating, and in it handleRunnerResult
\* of the modal, the store update and moveToNextQuestion.
Rate(rating, timeTaken) ==
    /\ RunnerActive(session)
    /\ session.selectedOption # NoOption /\ session.isRevealed
    /\ gradings < MaxGradings
    /\ LET currentQuestion == CurrentQuestion(session)
           isCorrectNow == IsCorrectNow(rating)
           evalLevel == EvalLevel(rating)
       IN \E p \in {calculateNewSrsState(currentQuestion, isCorrectNow, evalLevel,
                                           timeTaken, settings, clock, clock)} :
          \E updated \in {Updated(currentQuestion, p, isCorrectNow, evalLevel,
                                   timeTaken)} :
            /\ call' = [kind |-> "grade", item |-> currentQuestion,
                        label |-> rating, wasCorrect |-> isCorrectNow,
                        rating |-> evalLevel, timeTaken |-> timeTaken,
                        now |-> clock, nowR |-> clock,
                        currentR |-> calculateRetrievability(currentQuestion, clock),
                        threw |-> p.threw,
                        patch |-> IF p.threw THEN NoCall ELSE p,
                        updated |-> IF p.threw THEN NoQuestion ELSE updated]
            /\ IF p.threw
               THEN UNCHANGED <<questions, session, gradings>>
               ELSE /\ questions' = updateQuestion(questions, updated)
                    /\ session' = ResetOnNewQuestion(session,
                                                     handleRating(session, updated))
                    /\ gradings' = gradings + 1
    /\ UNCHANGED <<clock, settings, flashcards, status>>

\* "Marcar/Desmarcar Critica" in the runner's actions menu: handleToggleCritical
\* on the question the runner was given.
ToggleCritical ==
    /\ RunnerActive(session)
    /\ LET question == CurrentQuestion(session)
       IN questions' = updateQuestion(questions,
                                      [question EXCEPT !.isCritical = ~@])
    /\ UNCHANGED <<clock, settings, flashcards, call, status, gradings, session>>

\* A click on the backdrop or on the runner's close button.
RequestExit ==
    /\ session.isOpen /\ session.summaryResult = NoSummary
    /\ ~session.isLeaveConfirmOpen
    /\ session' = [session EXCEPT !.isLeaveConfirmOpen = TRUE]
    /\ UNCHANGED <<clock, settings, questions, flashcards, call, status, gradings>>

\* The confirmation is dismissed.
CancelExit ==
    /\ session.isOpen /\ session.isLeaveConfirmOpen
    /\ session' = [session EXCEPT !.isLeaveConfirmOpen = FALSE]
    /\ UNCHANGED <<clock, settings, questions, flashcards, call, status, gradings>>

\* handleConfirmExit
ConfirmExit ==
    /\ session.isOpen /\ session.isLeaveConfirmOpen
    /\ session' = ResetOnNewQuestion(session,
                      finalizeSession(session,
                                      [session EXCEPT !.isLeaveConfirmOpen = FALSE],
                                      FALSE))
    /\ UNCHANGED <<clock, settings, questions, flashcards, call, status, gradings>>

\* The summary is closed: onSessionFinished and onClose.
CloseReport ==
    /\ session.isOpen /\ session.summaryResult # NoSummary
    /\ session' = ResetOnNewQuestion(session, onClose(session))
    /\ UNCHANGED <<clock, settings, questions, flashcards, call, status, gradings>>

\* InteractiveQuestionModal on stored question i (a snapshot taken when it
\* opened): handleRunnerResult builds updatedQuestion and hands it to the
\* parent (onQuestionAnswered).
InteractiveAnswer(i, rating, timeTaken) ==
    /\ ~session.isOpen
    /\ LET question == questions[i]
           isCorrectNow == IsCorrectNow(rating)
           evalLevel == EvalLevel(rating)
       IN \E p \in {calculateNewSrsState(question, isCorrectNow, evalLevel,
                                           timeTaken, settings, clock, clock)} :
            call' = [kind |-> "interactive", item |-> question,
                     label |-> rating, wasCorrect |-> isCorrectNow,
                     rating |-> evalLevel, timeTaken |-> timeTaken,
                     now |-> clock, nowR |-> clock,
                     currentR |-> calculateRetrievability(question, clock),
                     threw |-> p.threw,
                     patch |-> IF p.threw THEN NoCall ELSE p,
                     updated |-> IF p.threw THEN NoQuestion
                                 ELSE Updated(question, p, isCorrectNow, evalLevel,
                                              timeTaken)]
    /\ UNCHANGED <<clock, settings, questions, flashcards, status, gradings, session>>

InitSession ==
    /\ clock = T0
    /\ settings = DocumentedSettings
    /\ questions = SessionStore
    /\ flashcards = <<>>
    /\ call = NoCall
    /\ status = NoStatus
    /\ gradings = 0
    /\ session = NoSession

NextSession ==
    \/ \E picked \in SessionPicks, kind \in SessionKinds :
            OpenSession(picked, kind.showHistoryAfterAnswer, kind.sessionType)
    \/ \E blockReason \in BOOLEAN : TrapscanUpdate(blockReason)
    \/ \E key \in OptionKeys, isLocked \in BOOLEAN : SelectOption(key, isLocked)
    \/ Reveal
    \/ \E rating \in Ratings : Rate(rating, SecondsTaken)
    \/ ToggleCritical
    \/ RequestExit
    \/ CancelExit
    \/ ConfirmExit
    \/ CloseReport
    \/ \E i \in DOMAIN questions, rating \in Ratings :
          InteractiveAnswer(i, rating, SecondsTaken)

SpecSession == InitSession /\ [][NextSession]_vars

-----------------------------------------------------------------------------
(* Properties of the study session *)

\* A step that stored a grading, and the history of a question.
StoredGrading == gradings' = gradings + 1
History(q) == q.attemptHistory

\* `new` is `old` with exactly one attempt record appended.
Appended(old, new) ==
    /\ Len(History(new)) = Len(History(old)) + 1
    /\ SubSeq(History(new), 1, Len(History(old))) = History(old)
    /\ new.totalAttempts = old.totalAttempts + 1

\* C21.  Rating 0 forces incorrect: every grading issued by StudySessionModal
\* and by InteractiveQuestionModal calls calculateNewSrsState with
\* wasCorrect = false if and only if the rating is 0 ('again'), and the grade
\* label of the patch is the label of the rating, so that grade = 'again'
\* exactly when lastWasCorrect = false.
RatingZeroIffIncorrect ==
    call.kind \in {"grade", "interactive"} =>
        /\ call.label \in Ratings
        /\ call.rating = 0 <=> call.label = "again"
        /\ ~call.wasCorrect <=> call.rating = 0
        /\ ~call.threw =>
              /\ call.patch.grade = call.label
              /\ call.patch.grade = "again" <=> ~call.patch.lastWasCorrect
              /\ call.updated.lastWasCorrect = call.patch.lastWasCorrect

\* C21 witness: the second stored grading of a session was rated 'again' and
\* went to calculateNewSrsState as rating 0, incorrect.
RatingZeroWitness ==
    /\ call.kind = "grade" /\ gradings = 2
    /\ call.label = "again" /\ call.rating = 0 /\ ~call.wasCorrect
    /\ call.patch.grade = "again" /\ ~call.patch.lastWasCorrect

\* C23.  Attempt history is append-only: each grading stored by the session
\* appends exactly one attempt record at the end of the graded item's
\* attemptHistory, leaves every earlier record unchanged and in order and
\* increases totalAttempts by exactly 1, over any sequence of gradings; no
\* other step touches a history.  The question InteractiveQuestionModal hands
\* to its parent has one record appended in the same way.
HistoryAppendOnly ==
    [][ /\ \A i \in DOMAIN questions :
              \/ /\ History(questions'[i]) = History(questions[i])
                 /\ questions'[i].totalAttempts = questions[i].totalAttempts
              \/ /\ StoredGrading
                 /\ questions[i].id = call'.item.id
                 /\ Appended(questions[i], questions'[i])
                 /\ History(questions'[i])[Len(History(questions'[i]))] =
                       AttemptRecord(call'.patch, call'.wasCorrect, call'.rating,
                                     call'.timeTaken)
        /\ StoredGrading =>
              \E i \in DOMAIN questions : Appended(questions[i], questions'[i])
        /\ (call'.kind \in {"grade", "interactive"} /\ ~call'.threw) =>
              Appended(call'.item, call'.updated) ]_vars

\* C23 witness: the question that came with one record has three after two
\* gradings, the first still the one it came with.
HistoryWitness ==
    /\ gradings = 2
    /\ Len(History(questions[2])) = 3 /\ questions[2].totalAttempts = 3
    /\ History(questions[2])[1] = History(SessionStore[2])[1]
    /\ History(questions[2])[3].date = clock

\* C25 as stated.  Session report completeness: when a session is finalized,
\* the answered-question list given to calculateSessionResult contains every
\* question graded in the session, including the one graded by the click that
\* triggers the finalization, and a session in which at least one question was
\* graded always produces a summary rather than closing without one.
ReportComplete ==
    [][ /\ (session.summaryResult = NoSummary /\ session'.summaryResult # NoSummary) =>
              session'.summaryResult.answered = session'.answeredQuestions
        /\ (session.isOpen /\ ~session'.isOpen /\ session.summaryResult = NoSummary) =>
              (Len(session.answeredQuestions) = 0 /\ ~StoredGrading) ]_vars

\* C26 as stated.  No lost update on isCritical: grading a question in a study
\* session leaves the stored question's isCritical as it is in the store at
\* that moment.
CriticalKept ==
    [][ StoredGrading =>
          \A i \in DOMAIN questions :
              questions'[i].isCritical = questions[i].isCritical ]_vars

\* C27 as stated.  History before advance: with showHistoryAfterAnswer enabled
\* and a session type other than 'gaps', after a question is graded the
\* review-history modal for that question is open and the session has neither
\* advanced to the next question nor finalized.
HistoryBeforeAdvance ==
    [][ (StoredGrading /\ session.showHistoryAfterAnswer
                       /\ session.sessionType # "gaps") =>
          /\ session'.isOpen
          /\ session'.reportQuestion = call'.updated
          /\ session'.currentIndex = session.currentIndex
          /\ session'.summaryResult = NoSummary ]_vars

\* C28.  Grade only after reveal: the runner emits a grading only in a state
\* where an option is selected and the answer is revealed; the answer becomes
\* revealed only through handleReveal, with an option selected and no reason
\* to block the submission; once revealed, the selected option does not
\* change until the question id changes (or the runner goes), and at that
\* point selection and reveal are reset.
GradeOnlyAfterReveal ==
    [][ /\ (call' # call /\ call'.kind = "grade") =>
              (session.selectedOption # NoOption /\ session.isRevealed)
        /\ (~session.isRevealed /\ session'.isRevealed) =>
              /\ ~session.blockReason /\ session.selectedOption # NoOption
              /\ session' = handleReveal(session)
        /\ (session.isRevealed /\ RunnerShown(session') /\
              CurrentQuestion(session').id = CurrentQuestion(session).id) =>
              /\ session'.selectedOption = session.selectedOption
              /\ session'.isRevealed
        /\ (RunnerShown(session) /\
              (~RunnerShown(session') \/
                CurrentQuestion(session').id # CurrentQuestion(session).id)) =>
              (session'.selectedOption = NoOption /\ ~session'.isRevealed) ]_vars

\* C28 witness: after the first question was graded, the second is shown with
\* an option selected and its answer revealed anew.
GradeAfterRevealWitness ==
    /\ RunnerShown(session) /\ session.currentIndex = 1 /\ gradings = 1
    /\ call.kind = "grade" /\ call.item.id = session.sessionQueue[1].id
    /\ session.selectedOption = "B" /\ session.isRevealed


=============================================================================
